---- MODULE Spec2Model ----
(***************************************************************************)
(* Model of the modal interaction controller of jql                        *)
(* (img/jql/ui/mainview.go): the MainView, its keyboard handler Edit, the  *)
(* render pass Layout, the refresh updateTableViewContents and the prompt  *)
(* completion callback promptExit.                                         *)
(*                                                                         *)
(* Conventions.  A Go string is a sequence of characters, each character a *)
(* one-letter TLA+ string; the fixed text of a message the code builds     *)
(* with fmt.Errorf is kept as one piece.  Indices are 0-based as in Go:    *)
(* At(s, i) is s[i] and InRange(s, i) says that s[i] does not panic.  An   *)
(* error value is a record: nil is [ok |-> TRUE], an error with message m  *)
(* is [ok |-> FALSE, msg |-> m].                                           *)
(***************************************************************************)
EXTENDS Integers, Sequences, FiniteSets, TLC

VARIABLES
    Table,       \* mv.Table: [Columns, Types, Entries, primary]
    Params,      \* mv.Params: [OrderBy, Dec]
    columns,     \* mv.columns: the visible column names
    entries,     \* mv.entries: the Entries Snapshot
    TableView,   \* mv.TableView: [Header, Values, Widths, row, column]
    Mode,        \* mv.Mode
    switching,   \* mv.switching
    alert,       \* mv.alert
    promptText,  \* mv.promptText
    focus,       \* the gocui current view: "none", "table" or "prompt"
    panicked,    \* TRUE once a handler has panicked (the process is gone)
    steps,       \* the number of handler runs so far
    last         \* the handler that ran last: "Init", "Edit", "Commit",
                 \* "Cancel" (promptExit with finish or without) or "Layout"

vars == <<Table, Params, columns, entries, TableView, Mode, switching, alert,
          promptText, focus, panicked, steps, last>>

----------------------------------------------------------------------------
(* Bounds of the model *)

\* a run is at most MaxSteps runs of a handler (Edit, promptExit, Layout)
MaxSteps == 6

----------------------------------------------------------------------------
(* Go values *)

At(s, i) == s[i + 1]
InRange(s, i) == i >= 0 /\ i < Len(s)

Nil == [ok |-> TRUE, msg |-> <<>>]
Err(m) == [ok |-> FALSE, msg |-> m]

MainViewModeTable == "Table"
MainViewModePrompt == "Prompt"
MainViewModeAlert == "Alert"
MainViewModeEdit == "Edit"

\* the characters of the model in ASCII order, to compare strings
Alphabet == <<" ", "-", "0", "1", "2", "3", "4", "5", "6", "7", "8", "9",
              "A", "B", "C", "^", "_", "a", "c", "d", "e", "g", "i", "l",
              "m", "n", "o", "r", "t", "v", "w", "x", "y">>
Code(c) == CHOOSE i \in 1..Len(Alphabet) : Alphabet[i] = c

RECURSIVE StrLess(_, _)
StrLess(a, b) ==
    IF b = <<>> THEN FALSE
    ELSE IF a = <<>> THEN TRUE
    ELSE IF Code(Head(a)) # Code(Head(b)) THEN Code(Head(a)) < Code(Head(b))
    ELSE StrLess(Tail(a), Tail(b))

\* strings.HasPrefix(column, "_")
HasPrefix(s, c) == Len(s) >= 1 /\ s[1] = c

\* strings.Split(s, " "): the pieces between the separators, empty ones kept
RECURSIVE SplitFrom(_, _, _)
SplitFrom(s, sep, cur) ==
    IF s = <<>> THEN <<cur>>
    ELSE IF Head(s) = sep THEN <<cur>> \o SplitFrom(Tail(s), sep, <<>>)
    ELSE SplitFrom(Tail(s), sep, Append(cur, Head(s)))
Split(s, sep) == SplitFrom(s, sep, <<>>)

Digits == <<"0", "1", "2", "3", "4", "5", "6", "7", "8", "9">>
IsDigit(c) == \E d \in 1..10 : Digits[d] = c
DigitVal(c) == (CHOOSE d \in 1..10 : Digits[d] = c) - 1

\* decimal formatting of an integer
RECURSIVE ItoaNat(_)
ItoaNat(n) == IF n < 10 THEN <<Digits[n + 1]>>
              ELSE Append(ItoaNat(n \div 10), Digits[(n % 10) + 1])
Itoa(n) == IF n < 0 THEN <<"-">> \o ItoaNat(-n) ELSE ItoaNat(n)

\* decimal parsing of an unsigned integer
RECURSIVE AtoiFrom(_, _)
AtoiFrom(s, acc) == IF s = <<>> THEN acc
                    ELSE AtoiFrom(Tail(s), 10 * acc + DigitVal(Head(s)))
IsNumber(s) == s # <<>> /\ \A i \in 1..Len(s) : IsDigit(s[i])
Atoi(s) == AtoiFrom(s, 0)

----------------------------------------------------------------------------
(* The table collaborator (package types): typed cells and the table *)

IntEntry(n) == [type |-> "int", n |-> n, s |-> <<>>]
StrEntry(str) == [type |-> "str", n |-> 0, s |-> str]

\* Entry.Format(""): the displayed string of a typed cell
Format(e) == IF e.type = "int" THEN Itoa(e.n) ELSE e.s

\* Entry.Add(delta): only a numeric cell can be incremented
Add(e, delta) ==
    IF e.type = "int"
    THEN [val |-> IntEntry(e.n + delta), err |-> Nil]
    ELSE [val |-> e, err |-> Err(<<"add: unsupported type">>)]

\* the typed cell that a text stands for in a column of type ty
ParseEntry(ty, text) ==
    IF ty = "str" THEN [val |-> StrEntry(text), err |-> Nil]
    ELSE IF IsNumber(text) THEN [val |-> IntEntry(Atoi(text)), err |-> Nil]
    ELSE IF Len(text) >= 2 /\ Head(text) = "-" /\ IsNumber(Tail(text))
    THEN [val |-> IntEntry(0 - Atoi(Tail(text))), err |-> Nil]
    ELSE [val |-> StrEntry(text), err |-> Err(<<"parse: not a number">>)]

ZeroEntry(ty) == IF ty = "int" THEN IntEntry(0) ELSE StrEntry(<<>>)

EntryLess(a, b) == IF a.type = "int" THEN a.n < b.n ELSE StrLess(a.s, b.s)

\* Table.Primary(): the index of the primary-key column
Primary(t) == t.primary

\* the index of the column named name, or -1
IndexOfField(t, name) ==
    IF \E i \in 1..Len(t.Columns) : t.Columns[i] = name
    THEN (CHOOSE i \in 1..Len(t.Columns) : t.Columns[i] = name) - 1
    ELSE -1

\* whether the record keyed k1 comes before the one keyed k2 under params
RowBefore(t, params, k1, k2) ==
    IF params.OrderBy = <<>> THEN StrLess(k1, k2)
    ELSE LET c == IndexOfField(t, params.OrderBy)
             a == At(t.Entries[k1], c)
             b == At(t.Entries[k2], c)
         IN  IF EntryLess(a, b) THEN ~params.Dec
             ELSE IF EntryLess(b, a) THEN params.Dec
             ELSE StrLess(k1, k2)

RECURSIVE SortedKeys(_, _, _)
SortedKeys(t, params, S) ==
    IF S = {} THEN <<>>
    ELSE LET k == CHOOSE x \in S : \A y \in S \ {x} : RowBefore(t, params, x, y)
         IN  <<k>> \o SortedKeys(t, params, S \ {k})

\* Table.Query(params): the records in the order params asks for; fails
\* when the collaborator does (fails) or when OrderBy names no column
Query(t, params, fails) ==
    IF fails THEN [rows |-> <<>>, err |-> Err(<<"query failed">>)]
    ELSE IF params.OrderBy # <<>> /\ IndexOfField(t, params.OrderBy) = -1
    THEN [rows |-> <<>>, err |-> Err(<<"unknown column">>)]
    ELSE LET ks == SortedKeys(t, params, DOMAIN t.Entries)
         IN  [rows |-> [i \in 1..Len(ks) |-> t.Entries[ks[i]]], err |-> Nil]

\* the records of t with the record keyed old replaced by row under key new
Rekeyed(t, old, new, row) ==
    [k \in (DOMAIN t.Entries \ {old}) \cup {new} |->
        IF k = new THEN row ELSE t.Entries[k]]

\* Table.Update(pk, column, text): parse text for the column and store it
Update(t, pk, column, text) ==
    LET c == IndexOfField(t, column) IN
    IF pk \notin DOMAIN t.Entries
    THEN [table |-> t, err |-> Err(<<"no such row">>)]
    ELSE IF c = -1
    THEN [table |-> t, err |-> Err(<<"unknown column">>)]
    ELSE LET p == ParseEntry(At(t.Types, c), text)
             row == [t.Entries[pk] EXCEPT ![c + 1] = p.val]
         IN  IF ~p.err.ok THEN [table |-> t, err |-> p.err]
             ELSE IF c # t.primary
             THEN [table |-> [t EXCEPT !.Entries[pk] = row], err |-> Nil]
             ELSE IF Format(p.val) # pk /\ Format(p.val) \in DOMAIN t.Entries
             THEN [table |-> t, err |-> Err(<<"duplicate key">>)]
             ELSE [table |-> [t EXCEPT !.Entries =
                                  Rekeyed(t, pk, Format(p.val), row)],
                   err |-> Nil]

\* Table.Insert(pk): a new record keyed pk, its other cells zero
Insert(t, pk) ==
    LET p == ParseEntry(At(t.Types, t.primary), pk)
        row == [i \in 1..Len(t.Columns) |->
                   IF i = t.primary + 1 THEN p.val ELSE ZeroEntry(t.Types[i])]
    IN  IF pk \in DOMAIN t.Entries
        THEN [table |-> t, err |-> Err(<<"duplicate key">>)]
        ELSE IF ~p.err.ok THEN [table |-> t, err |-> p.err]
        ELSE [table |-> [t EXCEPT !.Entries = Rekeyed(t, pk, pk, row)],
              err |-> Nil]

----------------------------------------------------------------------------
(* The View Projection collaborator (TableView) *)

DirectionRight == "Right"
DirectionUp == "Up"
DirectionLeft == "Left"
DirectionDown == "Down"

\* TableView.GetSelected()
GetSelected(tv) == [row |-> tv.row, column |-> tv.column]

RowCount(tv) == Len(tv.Values)
ColCount(tv) == IF InRange(tv.Values, tv.row) THEN Len(At(tv.Values, tv.row))
                ELSE 0

\* TableView.Move(direction): one cell over; a no-op at an edge of the grid
Move(tv, d) ==
    IF d = DirectionRight
    THEN IF tv.column + 1 < ColCount(tv)
         THEN [tv EXCEPT !.column = tv.column + 1] ELSE tv
    ELSE IF d = DirectionLeft
    THEN IF tv.column > 0 THEN [tv EXCEPT !.column = tv.column - 1] ELSE tv
    ELSE IF d = DirectionDown
    THEN IF tv.row + 1 < RowCount(tv)
         THEN [tv EXCEPT !.row = tv.row + 1] ELSE tv
    ELSE IF tv.row > 0 THEN [tv EXCEPT !.row = tv.row - 1] ELSE tv

----------------------------------------------------------------------------
(* The MainView.  A handler is an operator from the record of the        *)
(* MainView's fields to that record after the handler.  Beside the fields *)
(* the record carries what the run of the handler did: err, the handler's *)
(* variable err that its deferred function reads; raised, the last error  *)
(* any call of the handler returned; calls, the calls it made of the      *)
(* collaborators and of switchMode, in order; panicked, whether an index  *)
(* was out of range.                                                      *)

Call(fn, args) == [fn |-> fn, args |-> args]
Called(s, fn, args) == [s EXCEPT !.calls = Append(@, Call(fn, args))]
Raise(s, e) == IF e.ok THEN s ELSE [s EXCEPT !.raised = e]
Panic(s) == [s EXCEPT !.panicked = TRUE]

CreateNewEntry == <<"c", "r", "e", "a", "t", "e", "-", "n", "e", "w", "-",
                    "e", "n", "t", "r", "y">>

\* HeaderOf with the marker of the ascending order for either direction
HeaderOfAlwaysAscending(cols, params) ==
    [i \in 1..Len(cols) |->
        IF params.OrderBy = cols[i]
        THEN cols[i] \o <<" ", "v">>
        ELSE cols[i]]

\* the header of updateTableViewContents: the visible columns, the one
\* ordered by marked with its direction
HeaderOf(cols, params) ==
    [i \in 1..Len(cols) |->
        IF params.OrderBy = cols[i]
        THEN IF params.Dec THEN cols[i] \o <<" ", "^">>
             ELSE cols[i] \o <<" ", "v">>
        ELSE cols[i]]

\* the values grid of updateTableViewContents: every cell of every row
FormatRows(rows) ==
    [r \in 1..Len(rows) |-> [c \in 1..Len(rows[r]) |-> Format(rows[r][c])]]

\* updateTableViewContents; the result is the record and the error returned
updateTableViewContents(s, queryFails) ==
    LET s1 == [s EXCEPT !.TableView.Values = <<>>,
                        !.TableView.Header = HeaderOf(s.columns, s.Params)]
        q == Query(s1.Table, s1.Params, queryFails)
        s2 == Raise(Called(s1, "Query", <<>>), q.err)
    IN  IF ~q.err.ok THEN [s |-> s2, err |-> q.err]
        ELSE [s |-> [s2 EXCEPT !.entries = q.rows,
                               !.TableView.Values = FormatRows(q.rows)],
              err |-> Nil]

\* the visible columns of loadTable: those whose name does not begin with _
RECURSIVE VisibleColumns(_)
VisibleColumns(cols) ==
    IF cols = <<>> THEN <<>>
    ELSE IF HasPrefix(Head(cols), "_") THEN VisibleColumns(Tail(cols))
    ELSE <<Head(cols)>> \o VisibleColumns(Tail(cols))

DefaultWidth == 20

\* NewMainView and loadTable: the MainView showing table t
loadTable(t) ==
    LET cols == VisibleColumns(t.Columns)
        s == [Table |-> t,
              Params |-> [OrderBy |-> <<>>, Dec |-> FALSE],
              columns |-> cols,
              entries |-> <<>>,
              TableView |-> [Header |-> <<>>, Values |-> <<>>,
                             Widths |-> [i \in 1..Len(cols) |-> DefaultWidth],
                             row |-> 0, column |-> 0],
              Mode |-> MainViewModeTable,
              switching |-> FALSE,
              alert |-> <<>>,
              promptText |-> <<>>,
              err |-> Nil, raised |-> Nil, calls |-> <<>>,
              panicked |-> FALSE]
    IN  updateTableViewContents(s, FALSE).s

\* switchMode; the call is noted in calls
switchMode(s, new) ==
    Called([s EXCEPT !.switching = TRUE, !.Mode = new], "switchMode", <<new>>)

\* newEntry
newEntry(s) ==
    switchMode([s EXCEPT !.promptText = CreateNewEntry \o <<" ">>],
               MainViewModePrompt)

Path == <<"db.json">>

\* saveContents returning nil when the dump succeeds
saveContentsNilOnSuccess(s, env) ==
    IF env = "openFails" THEN Err(<<"open: permission denied">>)
    ELSE IF env = "dumpFails" THEN Err(<<"dump failed">>)
    ELSE Nil

\* saveContents: the error it returns; "Wrote <path>" on success
saveContents(s, env) ==
    IF env = "openFails" THEN Err(<<"open: permission denied">>)
    ELSE IF env = "dumpFails" THEN Err(<<"dump failed">>)
    ELSE Err(<<"Wrote ">> \o Path)

----------------------------------------------------------------------------
(* Edit: the keyboard handler of the table view *)

\* the value of the selected cell in the values grid, if there is one
SelectedInValues(s) ==
    InRange(s.TableView.Values, s.TableView.row)
    /\ InRange(At(s.TableView.Values, s.TableView.row), s.TableView.column)
SelectedValue(s) ==
    At(At(s.TableView.Values, s.TableView.row), s.TableView.column)

\* EditDismiss without the dismissal: the alert stays up
EditDismissKeepsAlert(s) == s

\* Edit, lines 206-208: any key dismisses an alert
EditDismiss(s) ==
    IF s.Mode = MainViewModeAlert THEN switchMode(s, MainViewModeTable) ELSE s

\* EditKey with a move to the right that does not stop at the edge
EditKeyPastEdge(s, key) ==
    IF key = "ArrowRight"
    THEN [s EXCEPT !.TableView.column = s.TableView.column + 1]
    ELSE IF key = "ArrowUp"
    THEN [s EXCEPT !.TableView = Move(s.TableView, DirectionUp)]
    ELSE IF key = "ArrowLeft"
    THEN [s EXCEPT !.TableView = Move(s.TableView, DirectionLeft)]
    ELSE IF key = "ArrowDown"
    THEN [s EXCEPT !.TableView = Move(s.TableView, DirectionDown)]
    ELSE IF key = "Enter"
    THEN LET s1 == switchMode(s, MainViewModeEdit)
         IN  IF SelectedInValues(s1)
             THEN [s1 EXCEPT !.promptText = SelectedValue(s1)]
             ELSE Panic(s1)
    ELSE s

\* Edit, lines 218-231: switch key
EditKey(s, key) ==
    IF key = "ArrowRight"
    THEN [s EXCEPT !.TableView = Move(s.TableView, DirectionRight)]
    ELSE IF key = "ArrowUp"
    THEN [s EXCEPT !.TableView = Move(s.TableView, DirectionUp)]
    ELSE IF key = "ArrowLeft"
    THEN [s EXCEPT !.TableView = Move(s.TableView, DirectionLeft)]
    ELSE IF key = "ArrowDown"
    THEN [s EXCEPT !.TableView = Move(s.TableView, DirectionDown)]
    ELSE IF key = "Enter"
    THEN LET s1 == switchMode(s, MainViewModeEdit)
         IN  IF SelectedInValues(s1)
             THEN [s1 EXCEPT !.promptText = SelectedValue(s1)]
             ELSE Panic(s1)
    ELSE s

\* Edit, lines 236-238: case 'b', open the selected cell's content
EditOpen(s, env) ==
    IF ~SelectedInValues(s) THEN Panic(s)
    ELSE LET e == IF env = "execFails" THEN Err(<<"exit status 1">>) ELSE Nil
         IN  [Raise(Called(s, "exec", <<SelectedValue(s)>>), e)
                 EXCEPT !.err = e]

\* Edit, lines 241-250: cases 'o' and 'O', order by the selected column
EditOrder(s, dec, env) ==
    LET col == GetSelected(s.TableView).column
    IN  IF ~InRange(s.columns, col) THEN Panic(s)
        ELSE LET s1 == [s EXCEPT !.Params.OrderBy = At(s.columns, col),
                                 !.Params.Dec = dec]
                 u == updateTableViewContents(s1, env = "queryFails")
             IN  [u.s EXCEPT !.err = u.err]

\* Edit, lines 251-270: cases 'i' and 'I', add delta to the selected cell.
\* The case declares its own err (new, err := ...): the err that the
\* deferred function reads is never assigned here.
EditAdd(s, delta, env) ==
    LET sel == GetSelected(s.TableView)
        primary == Primary(s.Table)
    IN  IF ~(InRange(s.entries, sel.row)
             /\ InRange(At(s.entries, sel.row), primary))
        THEN Panic(s)
        ELSE LET key == Format(At(At(s.entries, sel.row), primary))
             IN  IF key \notin DOMAIN s.Table.Entries
                 THEN Panic(s)
                 ELSE IF ~InRange(s.Table.Entries[key], sel.column)
                 THEN Panic(s)
                 ELSE LET a == Add(At(s.Table.Entries[key], sel.column), delta)
                          s1 == Raise(Called(s, "Add", <<key>>), a.err)
                          s2 == [s1 EXCEPT
                                   !.Table.Entries[key][sel.column + 1] = a.val]
                      IN  IF ~a.err.ok THEN s1
                          ELSE updateTableViewContents(
                                   s2, env = "queryFails").s

\* Edit, lines 271-272: case 's'
EditSave(s, env) ==
    LET e == saveContents(s, env)
    IN  [Raise(Called(s, "Dump", <<>>), e) EXCEPT !.err = e]

\* Edit, lines 233-275: switch ch
EditCh(s, ch, env) ==
    IF ch = "b" THEN EditOpen(s, env)
    ELSE IF ch = ":" THEN switchMode(s, MainViewModePrompt)
    ELSE IF ch = "o" THEN EditOrder(s, FALSE, env)
    ELSE IF ch = "O" THEN EditOrder(s, TRUE, env)
    ELSE IF ch = "i" THEN EditAdd(s, 1, env)
    ELSE IF ch = "I" THEN EditAdd(s, 0 - 1, env)
    ELSE IF ch = "s" THEN EditSave(s, env)
    ELSE IF ch = "n" THEN newEntry(s)
    ELSE s

\* Edit, lines 211-216: the deferred function
EditDeferred(s) ==
    IF ~s.err.ok
    THEN switchMode([s EXCEPT !.alert = s.err.msg], MainViewModeAlert)
    ELSE s

\* Edit
Edit(s, key, ch, env) ==
    LET s1 == EditKey(EditDismiss(s), key)
        s2 == IF s1.panicked THEN s1 ELSE EditCh(s1, ch, env)
    IN  EditDeferred(s2)

----------------------------------------------------------------------------
(* promptExit: the completion callback of the prompt *)

\* promptExit, lines 328-337: case MainViewModeEdit
promptExitEdit(s, contents, env) ==
    LET sel == GetSelected(s.TableView)
        primary == Primary(s.Table)
    IN  IF ~(InRange(s.entries, sel.row)
             /\ InRange(At(s.entries, sel.row), primary))
        THEN Panic(s)
        ELSE IF ~InRange(s.Table.Columns, sel.column) THEN Panic(s)
        ELSE LET key == Format(At(At(s.entries, sel.row), primary))
                 column == At(s.Table.Columns, sel.column)
                 up == Update(s.Table, key, column, contents)
                 s1 == Raise(Called(s, "Update", <<key, column, contents>>),
                             up.err)
                 u == updateTableViewContents(
                          [s1 EXCEPT !.Table = up.table], env = "queryFails")
             IN  IF ~up.err.ok THEN [s1 EXCEPT !.err = up.err]
                 ELSE [u.s EXCEPT !.err = u.err]

\* promptExitPrompt without the refresh that follows a successful Insert
promptExitPromptNoRefresh(s, contents, env) ==
    LET parts == Split(contents, " ")
        command == At(parts, 0)
    IN  IF Len(parts) = 0 THEN s
        ELSE IF command = CreateNewEntry
        THEN IF Len(parts) # 2
             THEN [s EXCEPT !.err = Err(<<"create-new-entry takes 1 arg">>),
                            !.raised = Err(<<"create-new-entry takes 1 arg">>)]
             ELSE LET newPK == At(parts, 1)
                      ins == Insert(s.Table, newPK)
                      s1 == Raise(Called(s, "Insert", <<newPK>>), ins.err)
                  IN  IF ~ins.err.ok THEN [s1 EXCEPT !.err = ins.err]
                      ELSE [s1 EXCEPT !.Table = ins.table]
        ELSE [s EXCEPT !.err = Err(<<"unknown command: ">> \o contents),
                       !.raised = Err(<<"unknown command: ">> \o contents)]

\* promptExit, lines 338-359: case MainViewModePrompt
promptExitPrompt(s, contents, env) ==
    LET parts == Split(contents, " ")
        command == At(parts, 0)
    IN  IF Len(parts) = 0 THEN s
        ELSE IF command = CreateNewEntry
        THEN IF Len(parts) # 2
             THEN [s EXCEPT !.err = Err(<<"create-new-entry takes 1 arg">>),
                            !.raised = Err(<<"create-new-entry takes 1 arg">>)]
             ELSE LET newPK == At(parts, 1)
                      ins == Insert(s.Table, newPK)
                      s1 == Raise(Called(s, "Insert", <<newPK>>), ins.err)
                      u == updateTableViewContents(
                               [s1 EXCEPT !.Table = ins.table],
                               env = "queryFails")
                  IN  IF ~ins.err.ok THEN [s1 EXCEPT !.err = ins.err]
                      ELSE [u.s EXCEPT !.err = u.err]
        ELSE [s EXCEPT !.err = Err(<<"unknown command: ">> \o contents),
                       !.raised = Err(<<"unknown command: ">> \o contents)]

\* promptExitDeferred without the assignment of the alert
promptExitDeferredNoAlert(s) ==
    IF ~s.err.ok
    THEN switchMode(s, MainViewModeAlert)
    ELSE switchMode(s, MainViewModeTable)

\* promptExit, lines 316-323: the deferred function
promptExitDeferred(s) ==
    IF ~s.err.ok
    THEN [switchMode(s, MainViewModeAlert) EXCEPT !.alert = s.err.msg]
    ELSE switchMode(s, MainViewModeTable)

\* promptExit, lines 327-360: switch current
promptExitSwitch(s, current, contents, env) ==
    IF current = MainViewModeEdit THEN promptExitEdit(s, contents, env)
    ELSE IF current = MainViewModePrompt
    THEN promptExitPrompt(s, contents, env)
    ELSE s

\* promptExit with a cancellation that goes through the deferred function
promptExitCancelSwitches(s, contents, finish, err, env) ==
    LET current == s.Mode
        s1 == Raise([s EXCEPT !.err = err], err)
    IN  IF ~finish THEN promptExitDeferred(s)
        ELSE IF ~err.ok THEN promptExitDeferred(s1)
        ELSE promptExitDeferred(promptExitSwitch(s1, current, contents, env))

\* promptExit
promptExit(s, contents, finish, err, env) ==
    LET current == s.Mode
        s1 == Raise([s EXCEPT !.err = err], err)
    IN  IF ~finish THEN s
        ELSE IF ~err.ok THEN promptExitDeferred(s1)
        ELSE promptExitDeferred(promptExitSwitch(s1, current, contents, env))

----------------------------------------------------------------------------
(* Layout: the render pass *)

\* Layout, lines 113 and 140-142: the pass clears the prompt view
LayoutClears(s) == s.switching

\* Layout that leaves the switching flag as it is
LayoutKeepsSwitching(s) ==
    IF s.Mode \in {MainViewModePrompt, MainViewModeEdit}
    THEN [s EXCEPT !.promptText = <<>>]
    ELSE s

\* Layout, lines 113-114 and 143-171: the fields after the pass
Layout(s) ==
    LET s1 == [s EXCEPT !.switching = FALSE]
    IN  IF s.Mode \in {MainViewModePrompt, MainViewModeEdit}
        THEN [s1 EXCEPT !.promptText = <<>>]
        ELSE s1

\* Layout, lines 143-171: the view that SetCurrentView makes current
LayoutFocus(mode) ==
    IF mode \in {MainViewModeTable, MainViewModeAlert} THEN "table"
    ELSE "prompt"

\* Layout, lines 149-170: the text the pass writes into the prompt view
LayoutWrites(s) ==
    IF s.Mode = MainViewModeAlert THEN s.alert
    ELSE IF s.Mode \in {MainViewModePrompt, MainViewModeEdit}
    THEN s.promptText
    ELSE <<>>

----------------------------------------------------------------------------
(* The tables the program is started on, and the inputs *)

ColName == <<"n", "a", "m", "e">>
ColAge == <<"a", "g", "e">>
ColId == <<"_", "i", "d">>
Al == <<"A", "l">>
Bo == <<"B", "o">>

\* the example of the spec: columns name and age, two records
TablePlain ==
    [Columns |-> <<ColName, ColAge>>, Types |-> <<"str", "int">>,
     primary |-> 0,
     Entries |-> [k \in {Al, Bo} |->
                     IF k = Al THEN <<StrEntry(Al), IntEntry(2)>>
                     ELSE <<StrEntry(Bo), IntEntry(1)>>]]

\* a table with a hidden column before the visible ones
TableHidden ==
    [Columns |-> <<ColId, ColName, ColAge>>, Types |-> <<"int", "str", "int">>,
     primary |-> 1,
     Entries |-> [k \in {Al} |-> <<IntEntry(0), StrEntry(Al), IntEntry(1)>>]]

\* a table with no record
TableEmpty ==
    [Columns |-> <<ColName, ColAge>>, Types |-> <<"str", "int">>,
     primary |-> 0,
     Entries |-> [k \in {} |-> <<>>]]

Tables == {TablePlain, TableHidden, TableEmpty}

Keys == {"ArrowRight", "ArrowUp", "ArrowLeft", "ArrowDown", "Enter", "Esc"}
Chars == {"b", ":", "o", "O", "i", "I", "s", "n", "x"}

\* a terminal event carries a key or a character, never both
Events == [key : Keys, ch : {"none"}] \cup [key : {"none"}, ch : Chars]

\* which collaborator call, if any, fails during the handling of a character
Envs(ch) ==
    IF ch \in {"o", "O", "i", "I"} THEN {"ok", "queryFails"}
    ELSE IF ch = "b" THEN {"ok", "execFails"}
    ELSE IF ch = "s" THEN {"ok", "openFails", "dumpFails"}
    ELSE {"ok"}

\* the lines committed in Prompt mode
PromptTexts ==
    {CreateNewEntry \o <<" ">>,
     CreateNewEntry \o <<" ", "C">>,
     CreateNewEntry \o <<" ", "C", " ", "x">>,
     CreateNewEntry,
     <<"x">>}

\* the texts committed in Edit mode
EditTexts == {<<"1">>, <<"C">>}

Contents(mode) == IF mode = MainViewModeEdit THEN EditTexts ELSE PromptTexts

UpstreamErrors == {Nil, Err(<<"prompt failed">>)}

----------------------------------------------------------------------------
(* The state machine *)

\* the record of the MainView's fields, at the start of a handler
MV == [Table |-> Table, Params |-> Params, columns |-> columns,
       entries |-> entries, TableView |-> TableView, Mode |-> Mode,
       switching |-> switching, alert |-> alert, promptText |-> promptText,
       err |-> Nil, raised |-> Nil, calls |-> <<>>, panicked |-> FALSE]

\* the fields take the values of the record r
Becomes(r) ==
    /\ Table' = r.Table
    /\ Params' = r.Params
    /\ columns' = r.columns
    /\ entries' = r.entries
    /\ TableView' = r.TableView
    /\ Mode' = r.Mode
    /\ switching' = r.switching
    /\ alert' = r.alert
    /\ promptText' = r.promptText
    /\ panicked' = r.panicked

Init ==
    \E t \in Tables :
        LET s == loadTable(t)
        IN  /\ Table = s.Table
            /\ Params = s.Params
            /\ columns = s.columns
            /\ entries = s.entries
            /\ TableView = s.TableView
            /\ Mode = s.Mode
            /\ switching = s.switching
            /\ alert = s.alert
            /\ promptText = s.promptText
            /\ panicked = FALSE
            /\ focus = "none"
            /\ steps = 0
            /\ last = "Init"

\* gocui hands an event to the editor of the current view, and handles every
\* pending event before it runs Layout again: Edit runs while the table
\* view is current, whatever the mode
Dispatch ==
    /\ ~panicked
    /\ steps < MaxSteps
    /\ steps' = steps + 1
    /\ focus = "table"
    /\ \E ev \in Events : \E env \in Envs(ev.ch) :
           LET r == Edit(MV, ev.key, ev.ch, env)
           IN  Becomes(r)
    /\ last' = "Edit"
    /\ UNCHANGED focus

\* the prompt's editor calls promptExit while the prompt is the current view
Complete ==
    /\ ~panicked
    /\ steps < MaxSteps
    /\ steps' = steps + 1
    /\ focus = "prompt"
    /\ \E contents \in Contents(Mode), finish \in BOOLEAN,
          uerr \in UpstreamErrors, env \in {"ok", "queryFails"} :
           LET r == promptExit(MV, contents, finish, uerr, env)
           IN  Becomes(r)
               /\ last' = IF finish THEN "Commit" ELSE "Cancel"
    /\ UNCHANGED focus

\* gocui runs Layout after the pending events; the calls Layout makes on
\* the gocui views are taken to succeed
Render ==
    /\ ~panicked
    /\ steps < MaxSteps
    /\ steps' = steps + 1
    /\ Becomes(Layout(MV))
    /\ focus' = LayoutFocus(Mode)
    /\ last' = "Layout"

Next == Dispatch \/ Complete \/ Render

Spec == Init /\ [][Next]_vars

----------------------------------------------------------------------------
(* What the claims speak of *)

\* gocui can hand an event to Edit / the prompt can call promptExit
CanDispatch == ~panicked /\ focus = "table"
CanComplete == ~panicked /\ focus = "prompt"

\* the handler left the View Projection of the current state untouched
SameView(r) == r.TableView = TableView

\* the handler changed nothing of the current state but the cursor
SameData(r) ==
    /\ r.TableView.Header = TableView.Header
    /\ r.TableView.Values = TableView.Values
    /\ r.TableView.Widths = TableView.Widths
    /\ r.entries = entries
    /\ r.Params = Params
    /\ r.Table = Table

\* what a dispatch results in, as far as the claims compare two dispatches
Outcome(r) == [Mode |-> r.Mode, Params |-> r.Params, TableView |-> r.TableView,
               entries |-> r.entries, Table |-> r.Table,
               panicked |-> r.panicked]

\* the handler made a call of fn
Made(r, fn) == \E i \in 1..Len(r.calls) : r.calls[i].fn = fn

\* the cursor is on a cell of the grid
InGrid(tv) ==
    /\ InRange(tv.Values, tv.row)
    /\ InRange(At(tv.Values, tv.row), tv.column)

ArrowKeys == {"ArrowRight", "ArrowUp", "ArrowLeft", "ArrowDown"}

\* the whitespace-delimited tokens of a line
Tokens(line) == SelectSeq(Split(line, " "), LAMBDA w : w # <<>>)

----------------------------------------------------------------------------
(* C1 *)

\* C1: whenever a command errors, the View Projection after the command is
\* the one before it, and Mode is Alert with a non-empty alert message.
C1_ErrorKeepsViewAndAlerts ==
    /\ CanDispatch =>
         \A ev \in Events : \A env \in Envs(ev.ch) :
             LET r == Edit(MV, ev.key, ev.ch, env)
             IN  (~r.raised.ok /\ ~r.panicked) =>
                     /\ SameView(r)
                     /\ r.Mode = MainViewModeAlert
                     /\ r.alert # <<>>
    /\ CanComplete =>
         \A contents \in Contents(Mode), uerr \in UpstreamErrors,
            env \in {"ok", "queryFails"} :
             LET r == promptExit(MV, contents, TRUE, uerr, env)
             IN  (~r.raised.ok /\ ~r.panicked) =>
                     /\ SameView(r)
                     /\ r.Mode = MainViewModeAlert
                     /\ r.alert # <<>>

----------------------------------------------------------------------------
(* C2 *)

\* C2: when 'i' or 'I' is dispatched in Table mode on a cell whose Add
\* returns an error, the dispatch ends with Mode = Alert and alert equal to
\* that error's message, and the table entry is not modified.
C2_AddErrorAlerts ==
    (CanDispatch /\ Mode = MainViewModeTable) =>
        \A ch \in {"i", "I"} : \A env \in Envs(ch) :
            LET r == Edit(MV, "none", ch, env)
            IN  (Made(r, "Add") /\ ~Made(r, "Query") /\ ~r.raised.ok) =>
                    /\ r.Mode = MainViewModeAlert
                    /\ r.alert = r.raised.msg
                    /\ r.Table = Table

----------------------------------------------------------------------------
(* C3 *)

\* C3: in every reachable state len(header) = len(widths) = len(values[i])
\* for every row i, also for a table with hidden columns.
C3_GridIsRectangular ==
    /\ Len(TableView.Header) = Len(TableView.Widths)
    /\ \A i \in 1..Len(TableView.Values) :
           Len(TableView.Values[i]) = Len(TableView.Header)

----------------------------------------------------------------------------
(* C4 *)

\* C4: while Mode is Prompt or Edit, an event dispatched to the controller
\* changes neither Mode, the cursor, the Query Parameters, the View
\* Projection, the Entries Snapshot nor the table, also before the next
\* render pass.
C4_PromptModesIgnoreEvents ==
    (CanDispatch /\ Mode \in {MainViewModePrompt, MainViewModeEdit}) =>
        \A ev \in Events : \A env \in Envs(ev.ch) :
            LET r == Edit(MV, ev.key, ev.ch, env)
            IN  /\ r.Mode = Mode
                /\ SameView(r)
                /\ SameData(r)

----------------------------------------------------------------------------
(* C5 *)

\* C5: an event dispatched in Alert mode is processed as the same event
\* dispatched in Table mode from an otherwise identical state: the two
\* dispatches end with the same Mode, Query Parameters, View Projection,
\* Entries Snapshot and table; an event with no bound command leaves
\* Mode = Table.
C5_AlertFallsThrough ==
    (CanDispatch /\ Mode = MainViewModeAlert) =>
        \A ev \in Events : \A env \in Envs(ev.ch) :
            LET inAlert == Edit(MV, ev.key, ev.ch, env)
                inTable == Edit([MV EXCEPT !.Mode = MainViewModeTable],
                                ev.key, ev.ch, env)
            IN  /\ Outcome(inAlert) = Outcome(inTable)
                /\ (ev.key = "Esc" \/ ev.ch = "x") =>
                       inAlert.Mode = MainViewModeTable

\* C5, its case: an event was dispatched in Alert mode and dismissed the
\* alert (only that leaves Mode = Table with the switch not yet rendered
\* while the table view is current)
C5_Witness ==
    /\ last = "Edit"
    /\ focus = "table"
    /\ Mode = MainViewModeTable
    /\ switching
    /\ alert # <<>>

----------------------------------------------------------------------------
(* C6 *)

----------------------------------------------------------------------------
(* C7 *)

\* C7: a prompt completion with committed = false, in Prompt or in Edit
\* mode, whatever the text and the upstream error, changes neither Mode,
\* alert, the Query Parameters, the View Projection, the Entries Snapshot
\* nor the table.
C7_CancelIsNoOp ==
    [][(last' = "Cancel"
        /\ Mode \in {MainViewModePrompt, MainViewModeEdit}) =>
          UNCHANGED <<Mode, alert, Params, TableView, entries, Table>>]_vars

\* C7, its case: an edit has been cancelled
C7_Witness ==
    /\ last = "Cancel"
    /\ Mode = MainViewModeEdit

----------------------------------------------------------------------------
(* C8 *)

\* C8: cancelling an edit (a completion with committed = false while Mode
\* is Edit) leaves the selected cell's value unchanged and leaves Mode back
\* at Table.
C8_CancelledEditReturnsToTable ==
    (CanComplete /\ Mode = MainViewModeEdit) =>
        \A contents \in Contents(Mode), uerr \in UpstreamErrors :
            LET r == promptExit(MV, contents, FALSE, uerr, "ok")
            IN  /\ r.TableView = TableView
                /\ r.Table = Table
                /\ r.Mode = MainViewModeTable

----------------------------------------------------------------------------
(* C9 *)

\* C9: after a committed prompt completion (Prompt or Edit mode), Mode is
\* Table if and only if no error occurred, and otherwise Mode is Alert with
\* alert equal to the error's message; a completion that carries an
\* upstream error ends in Alert with that error, and neither Update nor
\* Insert is called.
C9_CommitEndsInTableOrAlert ==
    (CanComplete /\ Mode \in {MainViewModePrompt, MainViewModeEdit}) =>
        \A contents \in Contents(Mode), uerr \in UpstreamErrors,
           env \in {"ok", "queryFails"} :
            LET r == promptExit(MV, contents, TRUE, uerr, env)
            IN  /\ ~r.panicked
                /\ r.Mode = MainViewModeTable <=> r.raised.ok
                /\ ~r.raised.ok =>
                       /\ r.Mode = MainViewModeAlert
                       /\ r.alert = r.raised.msg
                /\ ~uerr.ok =>
                       /\ r.Mode = MainViewModeAlert
                       /\ r.alert = uerr.msg
                       /\ ~Made(r, "Update")
                       /\ ~Made(r, "Insert")
                       /\ r.Table = Table

\* C9, its case: a committed completion that carried an upstream error has
\* ended in Alert with that error
C9_Witness ==
    /\ last = "Commit"
    /\ Mode = MainViewModeAlert
    /\ alert = <<"prompt failed">>

----------------------------------------------------------------------------
(* C10 *)

\* C10: in Prompt mode a committed line whose first token is
\* create-new-entry calls Insert if and only if it has exactly one further
\* token; otherwise no Insert is performed and the error is
\* 'create-new-entry takes 1 arg'; a line with any other first token
\* raises 'unknown command: <full text>' and does not change the table.
C10_CreateNewEntryGrammar ==
    (CanComplete /\ Mode = MainViewModePrompt) =>
        \A contents \in PromptTexts, env \in {"ok", "queryFails"} :
            LET r == promptExit(MV, contents, TRUE, Nil, env)
                toks == Tokens(contents)
            IN  IF toks # <<>> /\ toks[1] = CreateNewEntry
                THEN /\ Made(r, "Insert") <=> Len(toks) = 2
                     /\ Len(toks) # 2 =>
                            r.err = Err(<<"create-new-entry takes 1 arg">>)
                ELSE /\ r.err = Err(<<"unknown command: ">> \o contents)
                     /\ r.Table = Table

----------------------------------------------------------------------------
(* C11 *)

\* the fields a handler leaves for the next handler: its locals are gone
Fields(r) == [r EXCEPT !.err = Nil, !.raised = Nil, !.calls = <<>>]

\* the prompt is opened again after a commit: render, ':', render
Reopened(r) ==
    Layout(Fields(Edit(Fields(Layout(Fields(r))), "none", ":", "ok")))

\* the rows of a snapshot whose primary-key entry formats to k
RowsOfKey(s, k) ==
    {i \in 1..Len(s.entries) :
        /\ InRange(s.entries[i], Primary(s.Table))
        /\ Format(At(s.entries[i], Primary(s.Table))) = k}

NewKeys == {<<"C">>, Al, Bo}

\* C11: committing 'create-new-entry K' for a key K that is not in the
\* table yields, after the refresh, a values grid with one row more than
\* the table had records, exactly one of them a row whose snapshot
\* primary-key entry formats to K; committing the same line again raises
\* the table's duplicate-key error as the alert and leaves the row count of
\* the table, of the snapshot and of the values grid unchanged.
C11_InsertThenDuplicate ==
    (CanComplete /\ Mode = MainViewModePrompt) =>
        \A K \in NewKeys :
            LET line == CreateNewEntry \o <<" ">> \o K
                r == promptExit(MV, line, TRUE, Nil, "ok")
                again == promptExit(Reopened(r), line, TRUE, Nil, "ok")
                n == Cardinality(DOMAIN Table.Entries)
            IN  IF K \notin DOMAIN Table.Entries
                THEN /\ r.Mode = MainViewModeTable
                     /\ Cardinality(DOMAIN r.Table.Entries) = n + 1
                     /\ Len(r.TableView.Values) = n + 1
                     /\ Len(r.entries) = n + 1
                     /\ Cardinality(RowsOfKey(r, K)) = 1
                     /\ \A i \in RowsOfKey(r, K) :
                            At(r.TableView.Values[i], Primary(r.Table)) = K
                     /\ Reopened(r).Mode = MainViewModePrompt
                     /\ again.Mode = MainViewModeAlert
                     /\ again.alert = Insert(r.Table, K).err.msg
                     /\ again.alert # <<>>
                     /\ again.Table = r.Table
                     /\ Len(again.entries) = n + 1
                     /\ Len(again.TableView.Values) = n + 1
                ELSE /\ r.Mode = MainViewModeAlert
                     /\ r.alert = Insert(Table, K).err.msg
                     /\ r.alert # <<>>
                     /\ r.Table = Table
                     /\ Len(r.entries) = Len(entries)
                     /\ Len(r.TableView.Values) = Len(TableView.Values)

\* C11, its case: a committed create-new-entry has put a record of key C
\* into the table and a row of it into the values grid
C11_Witness ==
    /\ last = "Commit"
    /\ Mode = MainViewModeTable
    /\ <<"C">> \in DOMAIN Table.Entries
    /\ \E i \in 1..Len(TableView.Values) :
           At(TableView.Values[i], Primary(Table)) = <<"C">>

----------------------------------------------------------------------------
(* C12 *)

\* C12: 'o' / 'O' in Table mode with the cursor on a cell sets orderBy to
\* the name of the table column the selected cell's value belongs to and
\* descending to false / true, and on query success the snapshot equals the
\* rows Query returns for those parameters and the values grid their
\* formatted values; also with hidden columns before the selected column.
C12_OrderBySelectedColumn ==
    (CanDispatch /\ Mode = MainViewModeTable /\ InGrid(TableView)) =>
        \A ch \in {"o", "O"} :
            LET r == Edit(MV, "none", ch, "ok")
                col == GetSelected(TableView).column
            IN  /\ ~r.panicked
                /\ r.Params.OrderBy = At(Table.Columns, col)
                /\ r.Params.Dec = (ch = "O")
                /\ r.raised.ok =>
                       /\ r.entries = Query(Table, r.Params, FALSE).rows
                       /\ r.TableView.Values = FormatRows(r.entries)

----------------------------------------------------------------------------
(* C13 *)

\* C13: 's' dispatched in Table or Alert mode always ends with Mode = Alert
\* and a non-empty alert, the I/O error's message when opening or dumping
\* fails and 'Wrote <path>' on success, and changes neither the Query
\* Parameters, the View Projection, the Entries Snapshot nor the table.
C13_SaveAlwaysAlerts ==
    (CanDispatch /\ Mode \in {MainViewModeTable, MainViewModeAlert}) =>
        \A env \in Envs("s") :
            LET r == Edit(MV, "none", "s", env)
            IN  /\ ~r.panicked
                /\ r.Mode = MainViewModeAlert
                /\ r.alert # <<>>
                /\ r.alert = r.raised.msg
                /\ env = "ok" => r.alert = <<"Wrote ">> \o Path
                /\ env = "openFails" =>
                       r.alert = <<"open: permission denied">>
                /\ env = "dumpFails" => r.alert = <<"dump failed">>
                /\ SameView(r)
                /\ SameData(r)

\* C13, its case: a save that succeeded has left its message as the alert
C13_Witness ==
    /\ last = "Edit"
    /\ Mode = MainViewModeAlert
    /\ alert = <<"Wrote ">> \o Path

----------------------------------------------------------------------------
(* C14 *)

\* the events that switch into Prompt or Edit mode
Openers == {e \in Events : e.ch \in {":", "n"} \/ e.key = "Enter"}

\* the text the command of an event sets for the prompt
TextSetBy(s, e) ==
    IF e.ch = ":" THEN <<>>
    ELSE IF e.ch = "n" THEN CreateNewEntry \o <<" ">>
    ELSE SelectedValue(s)

\* C14: stale prompt text is never replayed: the text a render pass writes
\* in Prompt or Edit mode is the text set by the command that caused the
\* most recent transition into that mode (empty for ':', the
\* create-new-entry stub for 'n', the selected cell's value for Enter), and
\* a render pass that writes promptText leaves it empty, so that no value is
\* written twice.
C14_NoStalePromptText ==
    /\ CanDispatch =>
           \A e \in Openers :
               LET r == Edit(MV, e.key, e.ch, "ok")
               IN  (~r.panicked
                    /\ r.Mode \in {MainViewModePrompt, MainViewModeEdit}) =>
                       LayoutWrites(Fields(r)) = TextSetBy(MV, e)
    /\ (~panicked /\ Mode \in {MainViewModePrompt, MainViewModeEdit}) =>
           Layout(MV).promptText = <<>>

----------------------------------------------------------------------------
(* C15 *)

\* C15: the switching flag is consumed exactly once. It is false at the
\* start and after every render pass, every handler leaves it true exactly
\* when it was true before or the handler called switchMode, and a render
\* pass clears the prompt exactly when the flag is true; so a pass clears
\* the prompt iff switchMode was called since the previous pass, and a pass
\* that directly follows another never clears the prompt.
C15_SwitchingConsumedOnce ==
    /\ last \in {"Init", "Layout"} => ~switching
    /\ ~panicked =>
           /\ ~Layout(MV).switching
           /\ ~LayoutClears(Fields(Layout(MV)))
    /\ CanDispatch =>
           \A e \in Events : \A env \in Envs(e.ch) :
               LET r == Edit(MV, e.key, e.ch, env)
               IN  r.switching = (switching \/ Made(r, "switchMode"))
    /\ CanComplete =>
           \A contents \in Contents(Mode), finish \in BOOLEAN,
              err \in UpstreamErrors, env \in {"ok", "queryFails"} :
               LET r == promptExit(MV, contents, finish, err, env)
               IN  r.switching = (switching \/ Made(r, "switchMode"))

\* C15, its case: a render pass has consumed the flag that a switch to
\* Alert had set
C15_Witness ==
    /\ last = "Layout"
    /\ Mode = MainViewModeAlert
    /\ ~switching

----------------------------------------------------------------------------
(* C16 *)

\* the arguments of the calls of fn a handler made
ArgsOf(r, fn) == {r.calls[i].args : i \in {j \in 1..Len(r.calls) :
                                                r.calls[j].fn = fn}}

\* the commit r updated column name of the record of key with contents,
\* and where it raised nothing the cell formats to contents afterwards
Committed(r, key, name, contents) ==
    LET c == IndexOfField(r.Table, name)
        k == IF c = Primary(r.Table) THEN contents ELSE key
    IN  /\ ~r.panicked
        /\ ArgsOf(r, "Update") = {<<key, name, contents>>}
        /\ r.raised.ok =>
               /\ k \in DOMAIN r.Table.Entries
               /\ Format(At(r.Table.Entries[k], c)) = contents

\* the prompt is rendered and the text committed
RenderAndCommit(s, contents) ==
    promptExit(Fields(Layout(Fields(s))), contents, TRUE, Nil, "ok")

\* C16: an Edit-mode commit updates exactly the cell (record by primary
\* key, and column) whose formatted value was pre-filled when Enter opened
\* Edit mode, and after the refresh that cell formats to the committed
\* text; an event dispatched between Enter and the commit that leaves the
\* mode at Edit does not make the commit act on another record or column.
C16_CommitHitsPrefilledCell ==
    (CanDispatch /\ Mode = MainViewModeTable /\ InGrid(TableView)) =>
        LET opened == Edit(MV, "Enter", "none", "ok")
            sel == GetSelected(TableView)
            key == Format(At(At(entries, sel.row), Primary(Table)))
            name == At(Table.Columns, sel.column)
        IN  /\ opened.Mode = MainViewModeEdit
            /\ opened.promptText = SelectedValue(MV)
            /\ \A contents \in EditTexts :
                   Committed(RenderAndCommit(opened, contents),
                             key, name, contents)
            /\ \A e \in Events : \A env \in Envs(e.ch) :
                   LET mid == Edit(Fields(opened), e.key, e.ch, env)
                   IN  (~mid.panicked /\ mid.Mode = MainViewModeEdit) =>
                           \A contents \in EditTexts :
                               Committed(RenderAndCommit(mid, contents),
                                         key, name, contents)

----------------------------------------------------------------------------
(* C17 *)

\* C17: in every reachable state the Entries Snapshot and the values grid
\* are aligned: they have the same number of rows, and every cell of the
\* grid is the formatted value of the snapshot's entry at that row and
\* column.
C17_SnapshotAligned ==
    ~panicked =>
        /\ Len(TableView.Values) = Len(entries)
        /\ \A r \in 1..Len(entries) :
               /\ Len(TableView.Values[r]) = Len(entries[r])
               /\ \A c \in 1..Len(entries[r]) :
                      TableView.Values[r][c] = Format(entries[r][c])

----------------------------------------------------------------------------
(* C18 *)

\* the marker of the ascending and of the descending order
MarkAscending == <<" ", "v">>
MarkDescending == <<" ", "^">>

\* the header entry of visible column i carries a sort marker
Marked(i) ==
    TableView.Header[i] \in {columns[i] \o MarkAscending,
                             columns[i] \o MarkDescending}

\* C18: in every reachable state the header has one entry per visible
\* column, the column's name with or without a sort marker; an entry
\* carries a marker iff its column name equals Params.orderBy, the marker
\* is the ascending one exactly when descending is false, at most one
\* entry carries a marker, and none does when orderBy is empty.
C18_MarkerFollowsParams ==
    /\ Len(TableView.Header) = Len(columns)
    /\ \A i \in 1..Len(columns) :
           /\ Marked(i) \/ TableView.Header[i] = columns[i]
           /\ Marked(i) <=> columns[i] = Params.OrderBy
           /\ Marked(i) =>
                  (TableView.Header[i] = columns[i] \o MarkAscending
                       <=> ~Params.Dec)
    /\ Cardinality({i \in 1..Len(columns) : Marked(i)}) <= 1
    /\ Params.OrderBy = <<>> => \A i \in 1..Len(columns) : ~Marked(i)

\* C18, its case: 'O' has ordered by a column and the refresh has put the
\* descending marker on its header entry
C18_Witness ==
    /\ last = "Edit"
    /\ Params.Dec
    /\ \E i \in 1..Len(columns) :
           /\ columns[i] = Params.OrderBy
           /\ TableView.Header[i] = columns[i] \o MarkDescending

----------------------------------------------------------------------------
(* C19 *)

\* C19: no dispatch performs an out-of-range access: from every reachable
\* state, a table of zero rows and the state a failed refresh leaves
\* included, Edit for every event (Enter, 'b', 'i', 'I', 'o', 'O' among
\* them) and promptExit for every completion (the Edit-mode commit among
\* them) return without an index out of range.
C19_NoOutOfRange ==
    /\ CanDispatch =>
           \A e \in Events : \A env \in Envs(e.ch) :
               ~Edit(MV, e.key, e.ch, env).panicked
    /\ CanComplete =>
           \A contents \in Contents(Mode), finish \in BOOLEAN,
              err \in UpstreamErrors, env \in {"ok", "queryFails"} :
               ~promptExit(MV, contents, finish, err, env).panicked

----------------------------------------------------------------------------
(* C20 *)

\* the selected cell of the snapshot holds a number
OnNumericCell ==
    /\ InGrid(TableView)
    /\ InRange(entries, TableView.row)
    /\ InRange(At(entries, TableView.row), TableView.column)
    /\ At(At(entries, TableView.row), TableView.column).type = "int"

\* C20: 'i' followed by 'I' in Table mode on a numeric cell, with no cursor
\* movement between them and the queries succeeding, restores every cell
\* value of the table, whatever the sort column and direction, also when
\* the table is sorted by the incremented column.
C20_IncrementThenDecrement ==
    (CanDispatch /\ Mode = MainViewModeTable /\ OnNumericCell) =>
        LET inc == Edit(MV, "none", "i", "ok")
            dec == Edit(Fields(inc), "none", "I", "ok")
        IN  /\ ~inc.panicked
            /\ ~dec.panicked
            /\ dec.Table = Table

====
